---- MODULE Spec2Model ----
(***************************************************************************)
(* Model of LaneLines (src/LaneLines.py): the sliding-window lane-pixel    *)
(* search, the sample-count gate of the polynomial fit and the evaluation  *)
(* of the fitted coefficients for the overlay.                             *)
(*                                                                         *)
(* A detector instance is the state: the persistent fit coefficients, the  *)
(* configuration, the features cached by extract_features, and the locals  *)
(* of the call in progress.  The caller may call forward, extract_features,*)
(* fit_poly and find_lane_pixels in any order; fit_poly and                *)
(* find_lane_pixels search the features the detector holds at that time.   *)
(* A search is followed through its positions: the entry of the call, the  *)
(* assert and the histogram bases, one step per sliding-window band, then  *)
(* the return of find_lane_pixels or the fit gate and the overlay          *)
(* evaluation of fit_poly.                                                 *)
(*                                                                         *)
(* Not modelled: the drawing calls (cv2.rectangle, cv2.imshow, cv2.circle, *)
(* cv2.line) and the floating-point values of np.polyfit and np.linspace.  *)
(* np.polyfit is over-approximated: it returns some vector of 3            *)
(* coefficients, any element of FitValues.                                 *)
(***************************************************************************)
EXTENDS Integers, Sequences, FiniteSets

VARIABLES
    nwindows, margin, minpix,      \* configuration (self.nwindows, ...)
    left_fit, right_fit,           \* self.left_fit, self.right_fit
    img,                           \* self.img, the image of the last extract_features
    window_height,                 \* self.window_height, NoHeight while not set
    nonzero_type,                  \* what self.nonzerox and self.nonzeroy are: the
                                   \* "list" [] of __init__ or an "ndarray"
    nonzerox, nonzeroy,            \* self.nonzerox, self.nonzeroy, their elements
    call,                          \* the method the caller entered, or "none"
    arg_img,                       \* its parameter img, the image of the pass
    piw_args,                      \* <<center, margin, height>> of the caller's own
                                   \* pixels_in_window call
    pc,                            \* position inside the call, or "idle"
    band,                          \* number of bands of the loop already done
    leftx_base, rightx_base,       \* locals of find_lane_pixels
    leftx_current, rightx_current,
    y_current,
    center_left, center_right,     \* the window centres of the last band
    good_left_x, good_left_y,      \* what pixels_in_window returned for the last band
    good_right_x, good_right_y,
    leftx, lefty, rightx, righty,  \* the lane pixel accumulators
    ret                            \* what the last call returned or raised

vars == <<nwindows, margin, minpix, left_fit, right_fit, img, window_height,
          nonzero_type, nonzerox, nonzeroy, call, arg_img, piw_args, pc, band, leftx_base, rightx_base,
          leftx_current, rightx_current, y_current, center_left, center_right,
          good_left_x, good_left_y, good_right_x, good_right_y,
          leftx, lefty, rightx, righty, ret>>

cfgvars == <<nwindows, margin, minpix>>
fitvars == <<left_fit, right_fit>>
featvars == <<img, window_height, nonzero_type, nonzerox, nonzeroy>>
callvars == <<call, arg_img, piw_args>>
passvars == <<band, leftx_base, rightx_base, leftx_current, rightx_current,
              y_current, center_left, center_right, good_left_x, good_left_y,
              good_right_x, good_right_y, leftx, lefty, rightx, righty>>

----------------------------------------------------------------------------
(* Program constants *)

\* fit_poly: "if len(lefty) > 1500"
FitThreshold == 1500

\* __init__: nwindows = 12, margin = 20, minpix = 50
DefaultNWindows == 12
DefaultMargin == 20
DefaultMinpix == 50

----------------------------------------------------------------------------
(* Bounds of the model *)

\* small images carry at most this many foreground pixels
MaxPixels == 2
\* the large images put FitThreshold - 2 + k samples on a side, k = MaxExtra - 1 or MaxExtra
MaxExtra == 3
\* number of distinct coefficient vectors np.polyfit may return
NumFitValues == 1
\* number of channels of the 3-dimensional images
NChan == 3

----------------------------------------------------------------------------
(* Images.  An image is [ndim, h, w, rects]: its number of dimensions, its *)
(* shape (h rows, w columns) and its foreground as a set of rectangles     *)
(* <<x0, x1, y0, y1>> (inclusive); every other pixel is 0.  A 3-dimensional *)
(* image has NChan identical channels.                                     *)

NoImage == [ndim |-> 0, h |-> 0, w |-> 0, rects |-> {}]

\* self.window_height before the first extract_features: the attribute does
\* not exist (a set height is never negative)
NoHeight == -1

Pixel(im, x, y) ==
    IF \E r \in im.rects : r[1] <= x /\ x <= r[2] /\ r[3] <= y /\ y <= r[4]
    THEN 1 ELSE 0

Min2(a, b) == IF a <= b THEN a ELSE b
Max2(a, b) == IF a >= b THEN a ELSE b

SetMax(S) == CHOOSE m \in S : \A k \in S : k <= m
SetMin(S) == CHOOSE m \in S : \A k \in S : m <= k
Range(s) == {s[k] : k \in 1..Len(s)}

RECURSIVE SumRange(_, _, _)
SumRange(s, lo, hi) ==
    IF lo > hi THEN 0
    ELSE IF lo = hi THEN s[lo]
    ELSE SumRange(s, lo, (lo + hi) \div 2) + SumRange(s, (lo + hi) \div 2 + 1, hi)

\* np.sum of a 1-D array
SumSeq(s) == SumRange(s, 1, Len(s))

\* a[idx] for an index array idx
Take(a, idx) == [j \in 1..Len(idx) |-> a[idx[j]]]

\* what a call gave: nothing yet, or the exception it raised
NoReturn == [kind |-> "none"]
Raised(e) == [kind |-> e]

\* the pair self.nonzerox[idx], self.nonzeroy[idx] for an index array idx
TakeBoth(idx) ==
    [kind |-> "arrays", x |-> Take(nonzerox, idx), y |-> Take(nonzeroy, idx)]

\* the first and second components of a sequence of pairs
Firsts(ps) == [k \in 1..Len(ps) |-> ps[k][1]]
Seconds(ps) == [k \in 1..Len(ps) |-> ps[k][2]]

----------------------------------------------------------------------------
(* numpy helpers *)

\* img.nonzero(): the indices of the non-zero elements in row-major order,
\* as a sequence of <<x, y>> (column, row).  A 3-dimensional image lists a
\* pixel once per non-zero channel.
Nonzero(im) ==
    LET c == IF im.ndim = 3 THEN NChan ELSE 1
        cell(k) == <<((k - 1) \div c) % im.w, (k - 1) \div (c * im.w)>>
    IN  SelectSeq([k \in 1..(im.h * im.w * c) |-> cell(k)],
                  LAMBDA p : Pixel(im, p[1], p[2]) # 0)

\* (faulty variant of ArgMax) the last index of the maximum instead of the first
ArgMaxLast(s) ==
    CHOOSE k \in 0..(Len(s) - 1) :
        /\ \A j \in 0..(Len(s) - 1) : s[j + 1] <= s[k + 1]
        /\ \A j \in (k + 1)..(Len(s) - 1) : s[j + 1] < s[k + 1]

\* np.argmax of a non-empty 1-D array: the first index (0-based) of the maximum
ArgMax(s) ==
    CHOOSE k \in 0..(Len(s) - 1) :
        /\ \A j \in 0..(Len(s) - 1) : s[j + 1] <= s[k + 1]
        /\ \A j \in 0..(k - 1) : s[j + 1] < s[k + 1]

\* np.int32(np.mean(xs)) of a non-empty list of pixel columns (all >= 0, so
\* truncation toward zero is the floor of the quotient)
TruncMean(xs) == SumSeq(xs) \div Len(xs)

\* hist(img): column sums over the bottom half of the rows
hist(im) ==
    [x \in 1..im.w |->
        SumSeq([r \in 1..(im.h - im.h \div 2) |-> Pixel(im, x - 1, im.h \div 2 + r - 1)])]

\* (faulty variant of polyfit) a fit of degree 1: vectors of 2 coefficients
polyfitDeg1(ys, xs) == {<<0, k>> : k \in 1..NumFitValues}

\* np.polyfit(ys, xs, 2): the results it may give, each a vector of 3 coefficients
FitValues == {<<0, 0, k>> : k \in 1..NumFitValues}

polyfit(ys, xs) == FitValues

----------------------------------------------------------------------------
(* pixels_in_window: the cached foreground pixels inside the window, as    *)
(* the pair of arrays pixelx, pixely.  While the detector has extracted no *)
(* features, self.nonzerox is still the list [] and the comparison of the  *)
(* window edge with it raises TypeError.  The rectangle drawn on img is    *)
(* not modelled.                                                           *)

\* (faulty variant of PixelsInWindow) the right edge of the window is excluded
PixelsInWindowStrict(center, mg, height) ==
    IF nonzero_type = "list" THEN Raised("TypeError")
    ELSE LET condx(k) == center[1] - mg <= nonzerox[k] /\ nonzerox[k] < center[1] + mg
             condy(k) == center[2] - height \div 2 <= nonzeroy[k] /\ nonzeroy[k] <= center[2] + height \div 2
             idx == SelectSeq([k \in 1..Len(nonzerox) |-> k], LAMBDA k : condx(k) /\ condy(k))
         IN  TakeBoth(idx)

\* (faulty variant of PixelsInWindow) the bottom row of the window is excluded
PixelsInWindowHalfOpen(center, mg, height) ==
    IF nonzero_type = "list" THEN Raised("TypeError")
    ELSE LET condx(k) == center[1] - mg <= nonzerox[k] /\ nonzerox[k] <= center[1] + mg
             condy(k) == center[2] - height \div 2 <= nonzeroy[k] /\ nonzeroy[k] < center[2] + height \div 2
             idx == SelectSeq([k \in 1..Len(nonzerox) |-> k], LAMBDA k : condx(k) /\ condy(k))
         IN  TakeBoth(idx)

\* (faulty variant of PixelsInWindow) the window reaches height rows up and down, not height // 2
PixelsInWindowFullHeight(center, mg, height) ==
    IF nonzero_type = "list" THEN Raised("TypeError")
    ELSE LET condx(k) == center[1] - mg <= nonzerox[k] /\ nonzerox[k] <= center[1] + mg
             condy(k) == center[2] - height <= nonzeroy[k] /\ nonzeroy[k] <= center[2] + height
             idx == SelectSeq([k \in 1..Len(nonzerox) |-> k], LAMBDA k : condx(k) /\ condy(k))
         IN  TakeBoth(idx)

\* (faulty variant of PixelsInWindow) the window is twice as wide
PixelsInWindowWide(center, mg, height) ==
    IF nonzero_type = "list" THEN Raised("TypeError")
    ELSE LET condx(k) == center[1] - 2 * mg <= nonzerox[k] /\ nonzerox[k] <= center[1] + 2 * mg
             condy(k) == center[2] - height \div 2 <= nonzeroy[k] /\ nonzeroy[k] <= center[2] + height \div 2
             idx == SelectSeq([k \in 1..Len(nonzerox) |-> k], LAMBDA k : condx(k) /\ condy(k))
         IN  TakeBoth(idx)

PixelsInWindow(center, mg, height) ==
    IF nonzero_type = "list" THEN Raised("TypeError")
    ELSE LET topleft == <<center[1] - mg, center[2] - height \div 2>>
             bottomright == <<center[1] + mg, center[2] + height \div 2>>
             condx(k) == topleft[1] <= nonzerox[k] /\ nonzerox[k] <= bottomright[1]
             condy(k) == topleft[2] <= nonzeroy[k] /\ nonzeroy[k] <= bottomright[2]
             idx == SelectSeq([k \in 1..Len(nonzerox) |-> k], LAMBDA k : condx(k) /\ condy(k))
         IN  TakeBoth(idx)

----------------------------------------------------------------------------
(* Inputs *)

\* the configurations a detector is run with; the first is the one __init__ sets
Configs ==
    { [nwindows |-> DefaultNWindows, margin |-> DefaultMargin, minpix |-> DefaultMinpix],
      [nwindows |-> 2, margin |-> 1, minpix |-> 1],
      [nwindows |-> 3, margin |-> 2, minpix |-> 0] }

IsDefault == nwindows = DefaultNWindows

\* shapes <<h, w>> of the small images
SmallShapes == { <<4, 4>>, <<6, 3>> }

\* every 2-D image of a small shape with at most MaxPixels foreground pixels
SmallImages ==
    UNION { { [ndim |-> 2, h |-> sh[1], w |-> sh[2],
               rects |-> { <<p[1], p[1], p[2], p[2]>> : p \in S }] :
              S \in { T \in SUBSET ((0..(sh[2] - 1)) \X (0..(sh[1] - 1))) :
                          Cardinality(T) <= MaxPixels } } :
            sh \in SmallShapes }

\* a one-column image, and a 3-dimensional image
SpecialImages ==
    { [ndim |-> 2, h |-> 4, w |-> 1, rects |-> { <<0, 0, 3, 3>> }],
      [ndim |-> 3, h |-> 4, w |-> 4, rects |-> { <<1, 1, 3, 3>> }] }

\* 100 rows by 200 columns; per side either a full-height line (at x = 30,
\* x = 170) or a block of 14 full-height columns plus k pixels of a 15th
LargeSide(x0, k) ==
    IF k = 0 THEN { <<x0 + 7, x0 + 7, 0, 99>> }
    ELSE { <<x0, x0 + 13, 0, 99>>, <<x0 + 14, x0 + 14, 93, 92 + k>> }

\* <<kl, kr>> of the large images: lines on both sides; the threshold on one
\* side and one more on the other; one more than the threshold beside a line
LargeKs ==
    { <<0, 0>>, <<MaxExtra - 1, MaxExtra>>, <<MaxExtra, 0>>, <<0, MaxExtra>> }

LargeImages ==
    { [ndim |-> 2, h |-> 100, w |-> 200,
       rects |-> LargeSide(23, k[1]) \cup LargeSide(163, k[2])] : k \in LargeKs }

\* img.nonzero() of the large images, computed once
LargeNonzero == [im \in LargeImages |-> Nonzero(im)]
LargeHist == [im \in LargeImages |-> hist(im)]

NonzeroOf(im) == IF im \in LargeImages THEN LargeNonzero[im] ELSE Nonzero(im)
HistOf(im) == IF im \in LargeImages THEN LargeHist[im] ELSE hist(im)

\* the small images a detector is given once it holds features: all-zero,
\* or with the one pixel (3, 3)
FewImages == { im \in SmallImages : im.rects \subseteq { <<3, 3, 3, 3>> } }

\* the images a detector is fed by forward or extract_features: any image
\* of the family while it holds no features; after that the special and
\* large images (default configuration) or the special and the few images
FirstImages == SpecialImages \cup (IF IsDefault THEN LargeImages ELSE SmallImages)
LaterImages == SpecialImages \cup (IF IsDefault THEN LargeImages ELSE FewImages)
Images == IF img = NoImage THEN FirstImages ELSE LaterImages

\* the large image with a line on both sides: full-height lines at x = 30
\* and x = 170
LineImage ==
    [ndim |-> 2, h |-> 100, w |-> 200,
     rects |-> { <<30, 30, 0, 99>>, <<170, 170, 0, 99>> }]

\* the images a caller hands to fit_poly or find_lane_pixels when it calls
\* them itself, whatever features the detector holds: the special images,
\* and the line image (default configuration) or the few images
DirectImages == SpecialImages \cup (IF IsDefault THEN {LineImage} ELSE FewImages)

\* the windows <<center, margin, height>> a caller asks pixels_in_window for
\* when it calls it itself: inside, across and outside the small images, and
\* around the left line of the large ones
CallWindows ==
    { << <<0, 0>>, 1, 2 >>, << <<0, 4>>, 1, 0 >>, << <<2, 3>>, 20, 8 >>,
      << <<30, 96>>, 7, 8 >> }

----------------------------------------------------------------------------
(* State machine *)

\* the locals of a pass before find_lane_pixels has set them
PassClear ==
    /\ band' = 0
    /\ leftx_base' = 0 /\ rightx_base' = 0
    /\ leftx_current' = 0 /\ rightx_current' = 0
    /\ y_current' = 0
    /\ center_left' = <<>> /\ center_right' = <<>>
    /\ good_left_x' = <<>> /\ good_left_y' = <<>>
    /\ good_right_x' = <<>> /\ good_right_y' = <<>>
    /\ leftx' = <<>> /\ lefty' = <<>> /\ rightx' = <<>> /\ righty' = <<>>

\* no call of pixels_in_window by the caller is under way
NoArgs == <<>>

\* the call has ended: back to the caller
CallEnd == pc' = "idle" /\ call' = "none" /\ arg_img' = NoImage /\ piw_args' = NoArgs

\* __init__
Init ==
    /\ \E c \in Configs :
          nwindows = c.nwindows /\ margin = c.margin /\ minpix = c.minpix
    /\ left_fit = <<>> /\ right_fit = <<>>
    /\ img = NoImage
    /\ window_height = NoHeight
    /\ nonzero_type = "list"
    /\ nonzerox = <<>> /\ nonzeroy = <<>>
    /\ call = "none" /\ arg_img = NoImage /\ piw_args = NoArgs
    /\ pc = "idle"
    /\ band = 0
    /\ leftx_base = 0 /\ rightx_base = 0
    /\ leftx_current = 0 /\ rightx_current = 0
    /\ y_current = 0
    /\ center_left = <<>> /\ center_right = <<>>
    /\ good_left_x = <<>> /\ good_left_y = <<>>
    /\ good_right_x = <<>> /\ good_right_y = <<>>
    /\ leftx = <<>> /\ lefty = <<>> /\ rightx = <<>> /\ righty = <<>>
    /\ ret = NoReturn

\* the body of extract_features(img)
ExtractFeatures(im) ==
    /\ img' = im
    /\ window_height' = im.h \div nwindows
    /\ nonzero_type' = "ndarray"
    /\ nonzerox' = Firsts(NonzeroOf(im))
    /\ nonzeroy' = Seconds(NonzeroOf(im))

\* a call of extract_features(img) by the caller: it returns None
ExtractFeaturesCall(im) ==
    /\ pc = "idle"
    /\ ExtractFeatures(im)
    /\ ret' = [kind |-> "None"]
    /\ UNCHANGED <<cfgvars, fitvars, callvars, pc, passvars>>

\* a call of forward(img): extract_features(img), then fit_poly(img), which
\* enters find_lane_pixels(img)
Forward(im) ==
    /\ pc = "idle"
    /\ ExtractFeatures(im)
    /\ call' = "forward" /\ arg_img' = im /\ piw_args' = NoArgs
    /\ pc' = "bases"
    /\ ret' = NoReturn
    /\ UNCHANGED <<cfgvars, fitvars, passvars>>

\* a call of fit_poly(img) by the caller: it enters find_lane_pixels(img)
\* with the features the detector holds
FitPolyCall(im) ==
    /\ pc = "idle"
    /\ call' = "fit_poly" /\ arg_img' = im /\ piw_args' = NoArgs
    /\ pc' = "bases"
    /\ ret' = NoReturn
    /\ UNCHANGED <<cfgvars, fitvars, featvars, passvars>>

\* a call of find_lane_pixels(img) by the caller
FindLanePixelsCall(im) ==
    /\ pc = "idle"
    /\ call' = "find_lane_pixels" /\ arg_img' = im /\ piw_args' = NoArgs
    /\ pc' = "bases"
    /\ ret' = NoReturn
    /\ UNCHANGED <<cfgvars, fitvars, featvars, passvars>>

\* the base positions: the first peak of each half of the histogram
LeftBase(histogram) == ArgMax(SubSeq(histogram, 1, Len(histogram) \div 2))
\* (faulty variant of RightBase) the midpoint offset is forgotten
RightBaseNoOffset(histogram) ==
    ArgMax(SubSeq(histogram, Len(histogram) \div 2 + 1, Len(histogram)))

RightBase(histogram) ==
    ArgMax(SubSeq(histogram, Len(histogram) \div 2 + 1, Len(histogram)))
        + Len(histogram) \div 2

\* find_lane_pixels up to its loop: the assert on the number of dimensions,
\* the histogram and the base positions, the first read of self.window_height
Bases ==
    /\ pc = "bases"
    /\ UNCHANGED <<cfgvars, fitvars, featvars>>
    /\ LET histogram == HistOf(arg_img)
           midpoint == Len(histogram) \div 2
       IN  IF arg_img.ndim # 2
           THEN /\ CallEnd /\ ret' = Raised("AssertionError") /\ PassClear
           ELSE IF midpoint = 0 \/ midpoint = Len(histogram)
           THEN \* np.argmax of an empty slice
                /\ CallEnd /\ ret' = Raised("ValueError") /\ PassClear
           ELSE IF window_height = NoHeight
           THEN \* the attribute is set by extract_features only
                /\ CallEnd /\ ret' = Raised("AttributeError") /\ PassClear
           ELSE /\ pc' = "window"
                /\ UNCHANGED <<callvars, ret>>
                /\ band' = 0
                /\ leftx_base' = LeftBase(histogram)
                /\ rightx_base' = RightBase(histogram)
                /\ leftx_current' = leftx_base'
                /\ rightx_current' = rightx_base'
                /\ y_current' = arg_img.h + window_height \div 2
                /\ center_left' = <<>> /\ center_right' = <<>>
                /\ good_left_x' = <<>> /\ good_left_y' = <<>>
                /\ good_right_x' = <<>> /\ good_right_y' = <<>>
                /\ leftx' = <<>> /\ lefty' = <<>> /\ rightx' = <<>> /\ righty' = <<>>

\* (faulty variant of Recenter) recentres already at minpix pixels
RecenterGE(current, good_x) ==
    IF Len(good_x) >= minpix /\ Len(good_x) > 0 THEN TruncMean(good_x) ELSE current

\* the next x-position of a side after a band
Recenter(current, good_x) ==
    IF Len(good_x) > minpix THEN TruncMean(good_x) ELSE current

\* one iteration of the loop of find_lane_pixels; after the last one the
\* search is over (pc = "fit").  An exception of pixels_in_window ends the call.
Window ==
    /\ pc = "window"
    /\ UNCHANGED <<cfgvars, fitvars, featvars>>
    /\ \E y \in {y_current - window_height} :
       \E cl \in {<<leftx_current, y>>}, cr \in {<<rightx_current, y>>} :
       \E gl \in {PixelsInWindow(cl, margin, window_height)},
          gr \in {PixelsInWindow(cr, margin, window_height)} :
           IF gl.kind # "arrays" \/ gr.kind # "arrays"
           THEN /\ ret' = (IF gl.kind # "arrays" THEN gl ELSE gr)
                /\ CallEnd
                /\ PassClear
           ELSE /\ y_current' = y
                /\ center_left' = cl /\ center_right' = cr
                /\ good_left_x' = gl.x /\ good_left_y' = gl.y
                /\ good_right_x' = gr.x /\ good_right_y' = gr.y
                /\ leftx' = leftx \o gl.x /\ lefty' = lefty \o gl.y
                /\ rightx' = rightx \o gr.x /\ righty' = righty \o gr.y
                /\ leftx_current' = Recenter(leftx_current, gl.x)
                /\ rightx_current' = Recenter(rightx_current, gr.x)
                /\ band' = band + 1
                /\ pc' = IF band + 1 < nwindows THEN "window" ELSE "fit"
                /\ UNCHANGED <<callvars, leftx_base, rightx_base, ret>>

\* a call of pixels_in_window(center, margin, height, img) by the caller
PixelsInWindowCall(w) ==
    /\ pc = "idle"
    /\ call' = "pixels_in_window" /\ arg_img' = NoImage /\ piw_args' = w
    /\ pc' = "select"
    /\ ret' = NoReturn
    /\ UNCHANGED <<cfgvars, fitvars, featvars, passvars>>

\* its body: the pair of arrays it returns, or the exception
PixelsInWindowReturn ==
    /\ pc = "select"
    /\ ret' = PixelsInWindow(piw_args[1], piw_args[2], piw_args[3])
    /\ CallEnd
    /\ UNCHANGED <<cfgvars, fitvars, featvars, passvars>>

\* find_lane_pixels called by the caller returns its accumulators
FindLanePixelsReturn ==
    /\ pc = "fit" /\ call = "find_lane_pixels"
    /\ ret' = [kind |-> "pixels", leftx |-> leftx, lefty |-> lefty,
               rightx |-> rightx, righty |-> righty]
    /\ CallEnd
    /\ PassClear
    /\ UNCHANGED <<cfgvars, fitvars, featvars>>

\* (faulty variant of FitGate) refits already at the threshold
FitGateGE(ys) == Len(ys) >= FitThreshold

\* the gate of fit_poly: is a side with these samples refit
FitGate(ys) == Len(ys) > FitThreshold

\* fit_poly, the two gated fits
Fit ==
    /\ pc = "fit" /\ call # "find_lane_pixels"
    /\ IF FitGate(lefty) THEN left_fit' \in polyfit(lefty, leftx) ELSE left_fit' = left_fit
    /\ IF FitGate(righty) THEN right_fit' \in polyfit(righty, rightx) ELSE right_fit' = right_fit
    /\ pc' = "render"
    /\ UNCHANGED <<cfgvars, featvars, callvars, passvars, ret>>

\* can the coefficients be evaluated: fit[0], fit[1], fit[2]
Evaluable(fit) == Len(fit) >= 3

\* fit_poly, the y-range and the evaluation of both curves for the overlay
Render ==
    /\ pc = "render"
    /\ LET maxy0 == arg_img.h - 1
           miny0 == arg_img.h \div 3
           maxy1 == IF Len(lefty) > 0 THEN Max2(maxy0, SetMax(Range(lefty))) ELSE maxy0
           miny1 == IF Len(lefty) > 0 THEN Min2(miny0, SetMin(Range(lefty))) ELSE miny0
           maxy == IF Len(righty) > 0 THEN Max2(maxy1, SetMax(Range(righty))) ELSE maxy1
           miny == IF Len(righty) > 0 THEN Min2(miny1, SetMin(Range(righty))) ELSE miny1
       IN  ret' = IF Evaluable(left_fit) /\ Evaluable(right_fit)
                  THEN [kind |-> "image", h |-> arg_img.h, w |-> arg_img.w,
                        miny |-> miny, maxy |-> maxy]
                  ELSE Raised("IndexError")
    /\ CallEnd
    /\ PassClear
    /\ UNCHANGED <<cfgvars, fitvars, featvars>>

Next ==
    \/ \E im \in Images : ExtractFeaturesCall(im)
    \/ \E im \in Images : Forward(im)
    \/ \E im \in DirectImages : FitPolyCall(im)
    \/ \E im \in DirectImages : FindLanePixelsCall(im)
    \/ \E w \in CallWindows : PixelsInWindowCall(w)
    \/ PixelsInWindowReturn
    \/ Bases
    \/ Window
    \/ FindLanePixelsReturn
    \/ Fit
    \/ Render

Spec == Init /\ [][Next]_vars

----------------------------------------------------------------------------
(* Properties *)

\* the search of a call is under way or over and its locals are in place
InPass == pc \in {"window", "fit", "render"}

\* the search runs on the features of its own image, as it does in forward()
\* and after extract_features of the same image
OwnFeatures == img = arg_img

\* at least one band of the loop has run and its locals are still in place
BandDone == InPass /\ band >= 1

\* the pairs <<x, y>> an accumulator (or a returned pair of arrays) holds
Pairs(xs, ys) == { <<xs[j], ys[j]>> : j \in 1..Len(xs) }

\* the gate for one side: fit before, fitn after, ys the samples of the side
C1_GateStep(fit, fitn, ys) ==
    /\ Len(ys) <= FitThreshold => fitn = fit
    /\ Len(ys) > FitThreshold => (fitn \in FitValues /\ Len(fitn) = 3)

\* fit_poly has its samples and is at its gate
C1_AtGate == pc = "fit" /\ call \in {"forward", "fit_poly"}

(* C1: in fit_poly a side's coefficients are replaced by a new 3-coefficient *)
(* fit iff the side's sample count is strictly above the threshold: at the  *)
(* threshold or below they keep their value, above they are overwritten;    *)
(* no other step of any call touches them.                                  *)
C1_FitGate ==
    [][ /\ C1_AtGate => /\ C1_GateStep(left_fit, left_fit', lefty)
                        /\ C1_GateStep(right_fit, right_fit', righty)
        /\ ~C1_AtGate => (left_fit' = left_fit /\ right_fit' = right_fit) ]_vars

\* one pass with exactly the threshold on the left (not fit) and one more on the right (fit)
C1_Witness ==
    /\ pc = "render" /\ call = "forward"
    /\ Len(lefty) = FitThreshold /\ left_fit = <<>>
    /\ Len(righty) = FitThreshold + 1 /\ Len(right_fit) = 3

\* one step seen from one side: never back to empty, changed only by a qualifying fit
C2_SideStep(fit, fitn, ys) ==
    /\ fit # <<>> => fitn # <<>>
    /\ fitn # fit =>
          (pc = "fit" /\ call # "find_lane_pixels" /\ Len(ys) > FitThreshold /\ Len(fitn) = 3)

(* C2: over any sequence of calls on a detector each side's coefficients    *)
(* start empty, change only at the fit of a pass whose sample count for     *)
(* that side exceeds the threshold (to 3 values), and once non-empty never  *)
(* become empty again, whether the pass returns or aborts.                  *)
C2_FitLifecycle ==
    /\ (left_fit = <<>> /\ right_fit = <<>>)
    /\ [][ /\ C2_SideStep(left_fit, left_fit', lefty)
           /\ C2_SideStep(right_fit, right_fit', righty) ]_vars

\* a pass below the threshold on both sides on a detector that already holds both fits
C2_Witness ==
    /\ pc = "render" /\ call = "forward"
    /\ Len(lefty) <= FitThreshold /\ Len(righty) <= FitThreshold
    /\ Len(left_fit) = 3 /\ Len(right_fit) = 3

(* C3 (as claimed): a forward() pass on a 2-dimensional image never aborts:  *)
(* when it ends, forward() returns an image.  (Images of fewer than two     *)
(* columns, where the base estimator itself raises, are the matter of C8.)  *)
C3_NeverAborts ==
    [][ (/\ call = "forward" /\ arg_img.ndim = 2 /\ arg_img.w >= 2
         /\ pc # "idle" /\ pc' = "idle") => ret'.kind = "image" ]_vars

\* (x, y) lies in the closed rectangle of half-width mg and height h around c
C4_InRect(c, mg, h, x, y) ==
    /\ c[1] - mg <= x /\ x <= c[1] + mg
    /\ c[2] - h \div 2 <= y /\ y <= c[2] + h \div 2

\* the arrays gx, gy hold the pairs of sel, in the order of sel
C4_Holds(sel, gx, gy) ==
    /\ Len(gx) = Len(gy)
    /\ gx = Firsts(sel) /\ gy = Seconds(sel)

\* gx, gy are exactly the cached entries of the rectangle around c, in cached order
C4_Exact(c, mg, h, gx, gy) ==
    C4_Holds(SelectSeq([k \in 1..Len(nonzerox) |-> <<nonzerox[k], nonzeroy[k]>>],
                       LAMBDA p : C4_InRect(c, mg, h, p[1], p[2])),
             gx, gy)

\* the two calls of the last band of a search
C4_Bands ==
    BandDone =>
        /\ C4_Exact(center_left, margin, window_height, good_left_x, good_left_y)
        /\ C4_Exact(center_right, margin, window_height, good_right_x, good_right_y)

\* a call by the caller on a detector that holds extracted features
C4_Call ==
    (pc = "select" /\ nonzero_type = "ndarray") =>
        /\ ret'.kind = "arrays"
        /\ C4_Exact(piw_args[1], piw_args[2], piw_args[3], ret'.x, ret'.y)

(* C4: every call of pixels_in_window on cached features, by a search or by *)
(* the caller, returns exactly the cached foreground coordinates with       *)
(* cx-m <= x <= cx+m and cy-h//2 <= y <= cy+h//2, as two arrays of equal    *)
(* length in cached order, possibly empty; the window is not clamped to the *)
(* image and nothing is raised.                                             *)
C4_WindowExact == []C4_Bands /\ [][C4_Call]_vars

\* a window reaching outside the image that returned a pixel on its
\* boundary and left a cached pixel out
C4_Witness ==
    /\ BandDone
    /\ center_left[1] - margin < 0
    /\ center_left[2] + window_height \div 2 >= arg_img.h
    /\ \E j \in 1..Len(good_left_x) : good_left_x[j] = center_left[1] + margin
    /\ Len(good_left_x) < Len(nonzerox)

\* m is the mean of xs truncated (the coordinates are non-negative)
C5_IsTruncMean(m, xs) ==
    /\ Len(xs) > 0
    /\ m * Len(xs) <= SumSeq(xs)
    /\ SumSeq(xs) < (m + 1) * Len(xs)

\* the recentring rule for one side: c the centre used, current the next x-position
C5_SideRule(c, good_x, current) ==
    /\ Len(good_x) <= minpix => current = c[1]
    /\ Len(good_x) > minpix => C5_IsTruncMean(current, good_x)

(* C5: after a band, a side whose pixel count in the band is <= minpix      *)
(* keeps its x-position exactly; a side with more pixels moves to the mean  *)
(* x of the pixels of this band, truncated.  Only the side's own pixels     *)
(* decide.                                                                  *)
C5_Recenter ==
    BandDone =>
        /\ C5_SideRule(center_left, good_left_x, leftx_current)
        /\ C5_SideRule(center_right, good_right_x, rightx_current)

\* the left side has moved to a new mean while the right side, with some
\* pixels but not more than minpix, has stayed
C5_Witness ==
    /\ BandDone
    /\ Len(good_left_x) > minpix /\ leftx_current # center_left[1]
    /\ Len(good_right_x) > 0 /\ Len(good_right_x) <= minpix
    /\ rightx_current = center_right[1]

\* all foreground in the left half / in the right half of the columns
C6_LeftOnly == OwnFeatures /\ \A k \in 1..Len(nonzerox) : nonzerox[k] < img.w \div 2
C6_RightOnly == OwnFeatures /\ \A k \in 1..Len(nonzerox) : nonzerox[k] >= img.w \div 2

(* C6 (as claimed): a search over an image with foreground only in the left *)
(* half of the columns leaves the right accumulator empty, and one with     *)
(* foreground only in the right half leaves the left accumulator empty.     *)
C6_HalfImageOtherSideEmpty ==
    pc = "fit" =>
        /\ C6_LeftOnly => (rightx = <<>> /\ righty = <<>>)
        /\ C6_RightOnly => (leftx = <<>> /\ lefty = <<>>)

\* all foreground out of reach of the other side's window
C6_FarLeft ==
    OwnFeatures /\ \A k \in 1..Len(nonzerox) : nonzerox[k] < img.w \div 2 - margin
C6_FarRight ==
    OwnFeatures /\
    \A k \in 1..Len(nonzerox) : nonzerox[k] >= img.w \div 2 /\ nonzerox[k] > margin

(* C6 (amended): in a search over the features of its own image, foreground *)
(* only at columns x < width//2 - margin leaves the right accumulator empty *)
(* and the right x-position at the midpoint; foreground only at columns     *)
(* x >= width//2 with x > margin leaves the left accumulator empty and the  *)
(* left x-position at 0; the side that does collect follows its own pixels  *)
(* alone.                                                                   *)
C6_FarSideOtherSideEmpty ==
    BandDone =>
        /\ C6_FarLeft =>
              /\ rightx = <<>> /\ righty = <<>>
              /\ rightx_current = img.w \div 2
              /\ C5_SideRule(center_left, good_left_x, leftx_current)
        /\ C6_FarRight =>
              /\ leftx = <<>> /\ lefty = <<>>
              /\ leftx_current = 0
              /\ C5_SideRule(center_right, good_right_x, rightx_current)

\* a finished search over an image with pixels only far to the left: the
\* left side collected, the right side did not
C6_Witness ==
    /\ pc = "fit"
    /\ nonzerox # <<>> /\ C6_FarLeft
    /\ leftx # <<>> /\ rightx = <<>>

(* C7 (as claimed): with the default configuration a pass over the 200x100  *)
(* image with lines at x = 30 and x = 170 finds the bases 30 and 170,       *)
(* collects enough samples on each side to pass the fit gate, leaves both   *)
(* fits defined and returns an overlay.                                     *)
C7_EndToEndFits ==
    (IsDefault /\ call = "forward" /\ arg_img = LineImage) =>
        /\ InPass => (leftx_base = 30 /\ rightx_base = 170)
        /\ pc \in {"fit", "render"} =>
              (Len(lefty) > FitThreshold /\ Len(righty) > FitThreshold)
        /\ pc = "render" => (Len(left_fit) = 3 /\ Len(right_fit) = 3)

\* what the search over the line image finds
C7_LineSearch ==
    (IsDefault /\ call = "forward" /\ arg_img = LineImage) =>
        /\ InPass => (leftx_base = 30 /\ rightx_base = 170)
        /\ pc \in {"fit", "render"} =>
              /\ Len(leftx) = 107 /\ Len(lefty) = 107
              /\ Len(rightx) = 107 /\ Len(righty) = 107
              /\ Range(leftx) = {30} /\ Range(rightx) = {170}
              /\ Len(lefty) <= FitThreshold /\ Len(righty) <= FitThreshold

\* what the fit and the overlay evaluation do with it
C7_LineStep ==
    (IsDefault /\ call = "forward" /\ arg_img = LineImage) =>
        /\ pc = "fit" => (left_fit' = left_fit /\ right_fit' = right_fit)
        /\ (pc = "render" /\ (left_fit = <<>> \/ right_fit = <<>>)) =>
              ret'.kind = "IndexError"

(* C7 (amended): with the default configuration a pass over that image      *)
(* finds the bases 30 and 170 and collects 107 samples per side, all at     *)
(* x = 30 and x = 170; that does not exceed the fit threshold, so the pass  *)
(* leaves both fits as they were, and on a detector without fits (a fresh   *)
(* one) it ends with an IndexError instead of an overlay.                   *)
C7_EndToEndNoFit == []C7_LineSearch /\ [][C7_LineStep]_vars

\* the forward pass over the line image is past its gate on a detector that
\* has no fit: 107 samples a side, and the overlay evaluation is next
C7_Witness ==
    /\ IsDefault /\ call = "forward" /\ arg_img = LineImage /\ pc = "render"
    /\ Len(lefty) = 107 /\ Len(righty) = 107
    /\ left_fit = <<>> /\ right_fit = <<>>

(* C8 (as claimed): the base estimator has no error path for any            *)
(* 2-dimensional image: it never raises the ValueError of an empty argmax.  *)
C8_NoErrorPath ==
    [][ (pc = "bases" /\ arg_img.ndim = 2) => ret'.kind # "ValueError" ]_vars

\* the bottom-half column sum of a binary image at column x
C8_Profile(x) ==
    Cardinality({ y \in (arg_img.h \div 2)..(arg_img.h - 1) : Pixel(arg_img, x, y) # 0 })

\* b is the first column of lo..hi where the profile is maximal
C8_FirstMax(b, lo, hi) ==
    /\ lo <= b /\ b <= hi
    /\ \A x \in lo..hi : C8_Profile(x) <= C8_Profile(b)
    /\ \A x \in lo..(b - 1) : C8_Profile(x) < C8_Profile(b)

\* the bases with which the loop starts
C8_BasesFound ==
    (pc = "window" /\ band = 0) =>
        /\ arg_img.ndim = 2 /\ arg_img.w >= 2
        /\ C8_FirstMax(leftx_base, 0, arg_img.w \div 2 - 1)
        /\ C8_FirstMax(rightx_base, arg_img.w \div 2, arg_img.w - 1)
        /\ (\A x \in 0..(arg_img.w - 1) : C8_Profile(x) = 0) =>
              (leftx_base = 0 /\ rightx_base = arg_img.w \div 2)

(* C8 (amended): for every 2-dimensional image at least two columns wide    *)
(* the base estimator raises nothing; leftx_base is the first column of the *)
(* maximum of the bottom-half column sums over [0, midpoint), rightx_base   *)
(* the first column of the maximum over [midpoint, width), so               *)
(* 0 <= leftx_base < midpoint <= rightx_base < width, and an all-zero       *)
(* profile gives 0 and midpoint.                                            *)
C8_Bases ==
    /\ [](C8_BasesFound)
    /\ [][ (pc = "bases" /\ arg_img.ndim = 2 /\ arg_img.w >= 2) =>
               ret'.kind # "ValueError" ]_vars

\* bases found away from the defaults, the left one among tied columns
C8_Witness ==
    /\ pc = "window" /\ band = 0
    /\ leftx_base > 0 /\ rightx_base > arg_img.w \div 2
    /\ \E x \in (leftx_base + 1)..(arg_img.w \div 2 - 1) : C8_Profile(x) = C8_Profile(leftx_base)

\* no coordinate pair occurs twice
C9_Distinct(xs, ys) == Cardinality(Pairs(xs, ys)) = Len(xs)

(* C9 (as claimed): within one search over the features of its own image    *)
(* each foreground pixel is appended to a side's accumulator at most once:  *)
(* the accumulator holds distinct coordinates.                              *)
C9_AppendedOnce ==
    (pc = "fit" /\ OwnFeatures) =>
        (C9_Distinct(leftx, lefty) /\ C9_Distinct(rightx, righty))

\* occurrences of column x among the entries rowidx (those of one row)
C9_Times(xs, rowidx, x) == Cardinality({ j \in rowidx : xs[j] = x })

\* within one row no coordinate occurs more than n times
C9_RowAtMost(xs, rowidx, n) ==
    \A j \in rowidx : C9_Times(xs, rowidx, xs[j]) <= n

\* no coordinate pair occurs more than n times
C9_AtMost(xs, ys, n) ==
    \A r \in Range(ys) : C9_RowAtMost(xs, { j \in 1..Len(ys) : ys[j] = r }, n)

(* C9 (amended): within one search over the features of its own image each  *)
(* foreground pixel is appended to a side's accumulator at most twice, and  *)
(* at most once when the band height is odd; with an even band height       *)
(* consecutive bands share the row cy - h//2, and a pixel of that row       *)
(* inside both windows is appended by both bands.                           *)
C9_AppendedAtMostTwice ==
    (pc = "fit" /\ OwnFeatures) =>
        /\ C9_AtMost(leftx, lefty, 2) /\ C9_AtMost(rightx, righty, 2)
        /\ window_height % 2 = 1 =>
              (C9_Distinct(leftx, lefty) /\ C9_Distinct(rightx, righty))

\* an even band height and a pixel that two bands appended
C9_Witness ==
    /\ pc = "fit" /\ OwnFeatures
    /\ window_height % 2 = 0
    /\ Len(leftx) > Cardinality(Pairs(leftx, lefty))

\* absolute value
C10_Abs(a) == IF a < 0 THEN 0 - a ELSE a

(* C10: after a band a side's next x-position is within margin of the       *)
(* x-position used in the band, and after k bands within k * margin of its  *)
(* base position.                                                           *)
C10_BoundedDrift ==
    BandDone =>
        /\ C10_Abs(leftx_current - center_left[1]) <= margin
        /\ C10_Abs(rightx_current - center_right[1]) <= margin
        /\ C10_Abs(leftx_current - leftx_base) <= band * margin
        /\ C10_Abs(rightx_current - rightx_base) <= band * margin

\* a side that moved by the full margin in one band
C10_Witness ==
    /\ BandDone
    /\ C10_Abs(leftx_current - center_left[1]) = margin

====
